---- MODULE Spec2Model ----
(***************************************************************************)
(* A model of src/kernels/rendering.ts: the bounds-checked sampler getAt,  *)
(* the smoothstep helper nativeSmoothStep, and the two pixel kernels       *)
(* drawGpu (continuous coordinates) and drawCpu (rounded coordinates).     *)
(*                                                                         *)
(* Numbers.  The kernels compute with IEEE doubles.  A number is modelled  *)
(* as a pair <<n, d>>: for d > 0 the rational n/d in lowest terms, and     *)
(* for d = 0 one of the three special doubles, <<1, 0>> = +Infinity,       *)
(* <<-1, 0>> = -Infinity and <<0, 0>> = NaN.  Like a double, a number has  *)
(* finite precision: a result whose denominator exceeds Prec is rounded to *)
(* the nearest multiple of 1/Prec.  Every value the kernels' coordinate    *)
(* arithmetic produces within the bounds below is exact.  Negative zero is *)
(* not modelled (no reachable computation divides by a negative zero).     *)
(***************************************************************************)
EXTENDS Integers, Sequences, FiniteSets, TLC

VARIABLES
    fields,     \* the nine number[][] arguments of a kernel, by parameter name
    gridSize,   \* the gridSize argument, <<gx, gy>>
    cellSize,   \* the cellSize argument
    output,     \* this.output, <<this.output.x, this.output.y>>
    kernel,     \* the kernel that renders the frame: "gpu" (drawGpu) or "cpu" (drawCpu)
    thread,     \* this.thread of the latest kernel invocation, <<x, y>>, or <<>>
    frameGpu,   \* the locals of the latest invocation of drawGpu, or <<>>
    frameCpu,   \* the locals of the latest invocation of drawCpu, or <<>>
    raster,     \* the frame's pixels: the triple passed to this.color, or <<>>
    args0,      \* history: <<fields, gridSize, cellSize>> as first supplied
    call        \* a direct call of getAt or nativeSmoothStep: arguments and result

vars == <<fields, gridSize, cellSize, output, kernel, thread, frameGpu,
          frameCpu, raster, args0, call>>

-----------------------------------------------------------------------------
(* Bounds of the model. *)

\* a grid has at most MaxCells cells (gx * gy <= MaxCells)
MaxCells == 4
\* an output raster has at most MaxPixels pixels
MaxPixels == 4
\* the arguments of a direct call reach ArgSpan beyond the interval the
\* function distinguishes (the grid for getAt, [0, 1] for nativeSmoothStep)
ArgSpan == 2

-----------------------------------------------------------------------------
(* Double arithmetic. *)
(* The operations on numbers are functions, which take their arguments by  *)
(* value; the operators below them give the functions their usual names.   *)

\* the base of the two-digit rounding below; Prec = Base * Base
Base == 50
Prec == Base * Base

Abs(i) == IF i < 0 THEN -i ELSE i
Sgn(i) == IF i < 0 THEN -1 ELSE IF i > 0 THEN 1 ELSE 0

GCD[a \in Nat, b \in Nat] == IF b = 0 THEN a ELSE GCD[b, a % b]

\* the numbers: n/d for d > 0, and the special values for d = 0
Q == Int \X Nat
NaN == <<0, 0>>
PosInf == <<1, 0>>
NegInf == <<-1, 0>>
IsNaN(a) == a[2] = 0 /\ a[1] = 0
IsInf(a) == a[2] = 0 /\ a[1] # 0
IsFinite(a) == a[2] > 0

\* n/d (d > 0) in lowest terms
ReduceF[n \in Int, d \in Nat] ==
    LET g == GCD[Abs(n), d] IN <<n \div g, d \div g>>

\* n/d (d > 0) rounded to the nearest multiple of 1/Prec, by long division
RoundToF[n \in Int, d \in Nat] ==
    LET q  == n \div d
        r  == n % d
        m1 == (r * Base) \div d
        r1 == (r * Base) % d
        m2 == (r1 * Base + d \div 2) \div d
    IN  ReduceF[q * Prec + m1 * Base + m2, Prec]

\* the double nearest n/d
NumF[n \in Int, d \in Nat] ==
    LET r == ReduceF[n, d]
    IN  IF r[2] <= Prec THEN r ELSE RoundToF[r[1], r[2]]
Num(n, d) == NumF[n, d]

I(i) == <<i, 1>>
Zero == I(0)
One == I(1)
Half == <<1, 2>>

NegF[a \in Q] == <<-a[1], a[2]>>
Neg(a) == NegF[a]

AddF[a \in Q, b \in Q] ==
    IF IsNaN(a) \/ IsNaN(b) THEN NaN
    ELSE IF IsInf(a) THEN (IF IsInf(b) /\ b[1] # a[1] THEN NaN ELSE a)
    ELSE IF IsInf(b) THEN b
    ELSE LET l == (a[2] \div GCD[a[2], b[2]]) * b[2]
         IN  NumF[a[1] * (l \div a[2]) + b[1] * (l \div b[2]), l]
Add(a, b) == AddF[a, b]

Sub(a, b) == AddF[a, NegF[b]]

MulF[a \in Q, b \in Q] ==
    IF IsNaN(a) \/ IsNaN(b) THEN NaN
    ELSE IF IsInf(a) \/ IsInf(b)
         THEN (IF a[1] = 0 \/ b[1] = 0 THEN NaN ELSE <<Sgn(a[1]) * Sgn(b[1]), 0>>)
    ELSE LET g1 == GCD[Abs(a[1]), b[2]]
             g2 == GCD[Abs(b[1]), a[2]]
         IN  NumF[(a[1] \div g1) * (b[1] \div g2), (a[2] \div g2) * (b[2] \div g1)]
Mul(a, b) == MulF[a, b]

DivF[a \in Q, b \in Q] ==
    IF IsNaN(a) \/ IsNaN(b) THEN NaN
    ELSE IF IsInf(b) THEN (IF IsInf(a) THEN NaN ELSE Zero)
    ELSE IF b[1] = 0
         THEN (IF a[1] = 0 THEN NaN ELSE <<Sgn(a[1]), 0>>)
    ELSE MulF[a, <<Sgn(b[1]) * b[2], Abs(b[1])>>]
Div(a, b) == DivF[a, b]

\* comparisons: every comparison with NaN is false
LtF[a \in Q, b \in Q] ==
    /\ ~IsNaN(a) /\ ~IsNaN(b)
    /\ IF IsInf(a) THEN a[1] < 0 /\ b # a
       ELSE IF IsInf(b) THEN b[1] > 0
       ELSE LET l == (a[2] \div GCD[a[2], b[2]]) * b[2]
            IN  a[1] * (l \div a[2]) < b[1] * (l \div b[2])
LeF[a \in Q, b \in Q] == ~IsNaN(a) /\ ~IsNaN(b) /\ (a = b \/ LtF[a, b])
Lt(a, b) == LtF[a, b]
Le(a, b) == LeF[a, b]
Gt(a, b) == LtF[b, a]
Ge(a, b) == LeF[b, a]

\* Math.floor
FloorF[a \in Q] == IF IsFinite(a) THEN I(a[1] \div a[2]) ELSE a
Floor(a) == FloorF[a]
\* Math.round: the nearest integer, halves rounded up
MathRoundF[a \in Q] == IF IsFinite(a) THEN FloorF[AddF[a, Half]] ELSE a
MathRound(a) == MathRoundF[a]
\* Math.min(a, b): NaN if either is NaN
MathMinF[a \in Q, b \in Q] ==
    IF IsNaN(a) \/ IsNaN(b) THEN NaN ELSE IF LtF[b, a] THEN b ELSE a
MathMin(a, b) == MathMinF[a, b]
\* a % b of JavaScript for b = 1: the result has the sign of the dividend
Rem1F[a \in Q] ==
    IF ~IsFinite(a) THEN NaN
    ELSE IF a[1] >= 0 THEN Sub(a, FloorF[a])
    ELSE NegF[Sub(NegF[a], FloorF[NegF[a]])]
Rem1(a) == Rem1F[a]

\* Math.exp by its power series, with the argument halved until |a| <= 1
ExpTerms == 8
ExpTail[a \in Q, k \in Nat] ==
    IF k > ExpTerms THEN One
    ELSE AddF[One, MulF[DivF[a, I(k)], ExpTail[a, k + 1]]]
MathExpF[a \in Q] ==
    IF IsNaN(a) THEN NaN
    ELSE IF IsInf(a) THEN (IF a[1] > 0 THEN PosInf ELSE Zero)
    ELSE IF LtF[One, a] \/ LtF[a, NegF[One]]
         THEN LET h == MathExpF[DivF[a, I(2)]] IN MulF[h, h]
    ELSE ExpTail[a, 1]
MathExp(a) == MathExpF[a]

\* Math.sqrt(2 * Math.PI) = 2.5066..., to the model's precision
Sqrt2Pi == Num(25066, 10000)

-----------------------------------------------------------------------------
(* rendering.ts *)

\* field[y][x] of JavaScript for numbers y, x.  A fractional index is
\* truncated to the stored index, as the GPU build does ("on CPU we can't use
\* float indices"); an index with no element yields undefined, which the
\* arithmetic that follows turns into NaN.
ArrayIndex(a) == IF IsFinite(a) THEN a[1] \div a[2] ELSE -1
ReadField(field, y, x) ==
    LET iy == ArrayIndex(y)
        ix == ArrayIndex(x)
    IN  IF iy \in DOMAIN field /\ ix \in DOMAIN field[iy]
        THEN field[iy][ix] ELSE NaN

\* the condition of getAt's early return
\* the range test with "x > shapeX" for "x >= shapeX": the variant that lets
\* x = shapeX through to the array
OutOfBounds_InclusiveEnd(shapeX, shapeY, x, y) ==
    Lt(x, Zero) \/ Gt(x, I(shapeX)) \/ Lt(y, Zero) \/ Ge(y, I(shapeY))

OutOfBounds(shapeX, shapeY, x, y) ==
    Lt(x, Zero) \/ Ge(x, I(shapeX)) \/ Lt(y, Zero) \/ Ge(y, I(shapeY))

getAt(field, shapeX, shapeY, x, y) ==
    IF OutOfBounds(shapeX, shapeY, x, y) THEN Zero ELSE ReadField(field, y, x)

\* the indices <<y, x>> at which a call of getAt reads its field, if it does
getAtReads(shapeX, shapeY, x, y) ==
    IF OutOfBounds(shapeX, shapeY, x, y) THEN {}
    ELSE {<<ArrayIndex(y), ArrayIndex(x)>>}

\* the cubic without its upper edge "x >= 1 ? 1"
nativeSmoothStep_NoUpperEdge(x) ==
    IF Le(x, Zero) THEN Zero
    ELSE Sub(Mul(Mul(I(3), x), x), Mul(Mul(Mul(I(2), x), x), x))

nativeSmoothStep(x) ==
    IF Le(x, Zero) THEN Zero
    ELSE IF Ge(x, One) THEN One
    ELSE Sub(Mul(Mul(I(3), x), x), Mul(Mul(Mul(I(2), x), x), x))

\* the literals of the kernels
Lit002 == Num(2, 100)
Lit05 == Half
Lit08 == Num(8, 10)
Lit01 == Num(1, 10)
Lit2000 == I(2000)

\* x = gx * this.thread.x / this.output.x
gridX(gx, tx, ox) == Div(Mul(I(gx), I(tx)), I(ox))
\* the row coordinate without the vertical flip, gy * this.thread.y / this.output.y
gridY_NoFlip(gy, ty, oy) == Div(Mul(I(gy), I(ty)), I(oy))
\* y = gy * (1 - this.thread.y / this.output.y)
gridY(gy, ty, oy) == Mul(I(gy), Sub(One, Div(I(ty), I(oy))))
\* 2 / (1 + Math.exp(-0.5 * (v - 1))) - 1
materialValue(v) ==
    Sub(Div(I(2), Add(One, MathExp(Mul(Neg(Lit05), Sub(v, One))))), One)
\* Math.min(1, 1 / Math.round(2 * g / o))
tileFactor(g, o) == MathMin(One, Div(One, MathRound(Div(Mul(I(2), I(g)), I(o)))))
\* the branch taken the other way round, value >= 0.1 ? bg : 1 + bg
materialBackground_Flipped(value, bg) == IF Ge(value, Lit01) THEN bg ELSE Add(One, bg)
\* value >= 0.1 ? 1 + bg : bg
materialBackground(value, bg) == IF Ge(value, Lit01) THEN Add(One, bg) ELSE bg
\* an argument of this.color without Math.min(1, ...)
channel_Unclamped(v) == v
\* Math.min(1, v), an argument of this.color
channel(v) == MathMin(One, v)

\* drawGpu's body for this.thread = th and this.output = out, as the relation
\* between its arguments and l, the record of its locals and of the triple it
\* passes to this.color.  "\E v \in {e} :" is "const v = e": v is bound to the
\* value of e, in the order the body computes its locals.
\* fx, fy name the unrounded coordinates, mx, my the coordinates of the
\* magnetic samples.
drawGpu(f, gs, cs, th, out, l) ==
    \E gx \in {gs[1]} :
    \E gy \in {gs[2]} :
    \E x \in {gridX(gx, th[1], out[1])} :
    \E y \in {gridY(gy, th[2], out[2])} :
    \E fx \in {x} :
    \E fy \in {y} :
    \E fieldBrightness \in {Div(Mul(Lit002, Lit002), Mul(cs, cs))} :
    \E eX \in {getAt(f.electricFieldX, gx, gy, x, y)} :
    \E eY \in {getAt(f.electricFieldY, gx, gy, x, y)} :
    \E eZ \in {getAt(f.electricFieldZ, gx, gy, x, y)} :
    \E eEnergy \in {Mul(Mul(fieldBrightness, fieldBrightness), Add(Add(Mul(eX, eX), Mul(eY, eY)), Mul(eZ, eZ)))} :
    \E mx \in {Sub(x, Lit05)} :
    \E my \in {Sub(y, Lit05)} :
    \E mX \in {getAt(f.magneticFieldX, gx, gy, mx, my)} :
    \E mY \in {getAt(f.magneticFieldY, gx, gy, mx, my)} :
    \E mZ \in {getAt(f.magneticFieldZ, gx, gy, mx, my)} :
    \E mEnergy \in {Mul(Mul(fieldBrightness, fieldBrightness), Add(Add(Mul(mX, mX), Mul(mY, mY)), Mul(mZ, mZ)))} :
    \E permittivityValue \in {materialValue(getAt(f.permittivity, gx, gy, x, y))} :
    \E permeabilityValue \in {materialValue(getAt(f.permeability, gx, gy, x, y))} :
    \E tileFactorX \in {tileFactor(gx, out[1])} :
    \E tileFactorY \in {tileFactor(gy, out[2])} :
    \E dxPermittivity \in {Sub(Rem1(Mul(tileFactorX, x)), Lit05)} :
    \E dyPermittivity \in {Sub(Rem1(Mul(tileFactorY, y)), Lit05)} :
    \E circleDistPermittivity \in {Mul(Add(Mul(dxPermittivity, dxPermittivity), Mul(dyPermittivity, dyPermittivity)), Sqrt2Pi)} :
    \E dxPermeability \in {Sub(Rem1(Add(Mul(tileFactorX, x), Lit05)), Lit05)} :
    \E dyPermeability \in {Sub(Rem1(Add(Mul(tileFactorY, y), Lit05)), Lit05)} :
    \E circleDistPermeability \in {Mul(Add(Mul(dxPermeability, dxPermeability), Mul(dyPermeability, dyPermeability)), Sqrt2Pi)} :
    \E bgPermittivity \in {Neg(nativeSmoothStep(circleDistPermittivity))} :
    \E bgPermeability \in {Neg(nativeSmoothStep(circleDistPermeability))} :
    \E backgroundPermittivity \in {materialBackground(permittivityValue, bgPermittivity)} :
    \E backgroundPermeability \in {materialBackground(permeabilityValue, bgPermeability)} :
    \E background \in {Div(getAt(f.conductivity, gx, gy, x, y), Lit2000)} :
    l =
    [ x |-> x, y |-> y, fx |-> fx, fy |-> fy, mx |-> mx, my |-> my,
      eX |-> eX, eY |-> eY, eZ |-> eZ, eEnergy |-> eEnergy,
      mX |-> mX, mY |-> mY, mZ |-> mZ, mEnergy |-> mEnergy,
      permittivityValue |-> permittivityValue,
      permeabilityValue |-> permeabilityValue,
      circleDistPermittivity |-> circleDistPermittivity,
      circleDistPermeability |-> circleDistPermeability,
      backgroundPermittivity |-> backgroundPermittivity,
      backgroundPermeability |-> backgroundPermeability,
      background |-> background,
      color |-> << channel(Add(Add(background, eEnergy),
                      Mul(Mul(Lit08, backgroundPermittivity), permittivityValue))),
                   channel(Add(Add(background, eEnergy), mEnergy)),
                   channel(Add(Add(background, mEnergy),
                      Mul(Mul(Lit08, backgroundPermeability), permeabilityValue))) >> ]

\* drawCpu's body, likewise: the coordinates are rounded before sampling, the
\* magnetic samples are taken at the rounded coordinates, and the tiling uses
\* the unrounded fx, fy
drawCpu(f, gs, cs, th, out, l) ==
    \E gx \in {gs[1]} :
    \E gy \in {gs[2]} :
    \E fx \in {gridX(gx, th[1], out[1])} :
    \E fy \in {gridY(gy, th[2], out[2])} :
    \E x \in {MathRound(fx)} :
    \E y \in {MathRound(fy)} :
    \E fieldBrightness \in {Div(Mul(Lit002, Lit002), Mul(cs, cs))} :
    \E eX \in {getAt(f.electricFieldX, gx, gy, x, y)} :
    \E eY \in {getAt(f.electricFieldY, gx, gy, x, y)} :
    \E eZ \in {getAt(f.electricFieldZ, gx, gy, x, y)} :
    \E eEnergy \in {Mul(Mul(fieldBrightness, fieldBrightness), Add(Add(Mul(eX, eX), Mul(eY, eY)), Mul(eZ, eZ)))} :
    \E mx \in {x} :
    \E my \in {y} :
    \E mX \in {getAt(f.magneticFieldX, gx, gy, mx, my)} :
    \E mY \in {getAt(f.magneticFieldY, gx, gy, mx, my)} :
    \E mZ \in {getAt(f.magneticFieldZ, gx, gy, mx, my)} :
    \E mEnergy \in {Mul(Mul(fieldBrightness, fieldBrightness), Add(Add(Mul(mX, mX), Mul(mY, mY)), Mul(mZ, mZ)))} :
    \E permittivityValue \in {materialValue(getAt(f.permittivity, gx, gy, x, y))} :
    \E permeabilityValue \in {materialValue(getAt(f.permeability, gx, gy, x, y))} :
    \E tileFactorX \in {tileFactor(gx, out[1])} :
    \E tileFactorY \in {tileFactor(gy, out[2])} :
    \E dxPermittivity \in {Sub(Rem1(Mul(tileFactorX, fx)), Lit05)} :
    \E dyPermittivity \in {Sub(Rem1(Mul(tileFactorY, fy)), Lit05)} :
    \E circleDistPermittivity \in {Mul(Add(Mul(dxPermittivity, dxPermittivity), Mul(dyPermittivity, dyPermittivity)), Sqrt2Pi)} :
    \E dxPermeability \in {Sub(Rem1(Add(Mul(tileFactorX, fx), Lit05)), Lit05)} :
    \E dyPermeability \in {Sub(Rem1(Add(Mul(tileFactorY, fy), Lit05)), Lit05)} :
    \E circleDistPermeability \in {Mul(Add(Mul(dxPermeability, dxPermeability), Mul(dyPermeability, dyPermeability)), Sqrt2Pi)} :
    \E bgPermittivity \in {Neg(nativeSmoothStep(circleDistPermittivity))} :
    \E bgPermeability \in {Neg(nativeSmoothStep(circleDistPermeability))} :
    \E backgroundPermittivity \in {materialBackground(permittivityValue, bgPermittivity)} :
    \E backgroundPermeability \in {materialBackground(permeabilityValue, bgPermeability)} :
    \E background \in {Div(getAt(f.conductivity, gx, gy, x, y), Lit2000)} :
    l =
    [ x |-> x, y |-> y, fx |-> fx, fy |-> fy, mx |-> mx, my |-> my,
      eX |-> eX, eY |-> eY, eZ |-> eZ, eEnergy |-> eEnergy,
      mX |-> mX, mY |-> mY, mZ |-> mZ, mEnergy |-> mEnergy,
      permittivityValue |-> permittivityValue,
      permeabilityValue |-> permeabilityValue,
      circleDistPermittivity |-> circleDistPermittivity,
      circleDistPermeability |-> circleDistPermeability,
      backgroundPermittivity |-> backgroundPermittivity,
      backgroundPermeability |-> backgroundPermeability,
      background |-> background,
      color |-> << channel(Add(Add(background, eEnergy),
                      Mul(Mul(Lit08, backgroundPermittivity), permittivityValue))),
                   channel(Add(Add(background, eEnergy), mEnergy)),
                   channel(Add(Add(background, mEnergy),
                      Mul(Mul(Lit08, backgroundPermeability), permeabilityValue))) >> ]

-----------------------------------------------------------------------------
(* The inputs the model draws. *)

NoColor == <<>>
NoFrame == <<>>
NoThread == <<>>
NoCall == [fn |-> "none", args |-> <<>>, ret |-> <<>>, reads |-> {}]
NoRet == <<>>

\* the sizes <<w, h>> of at most max cells
Shapes(max) == {s \in (1..max) \X (1..max) : s[1] * s[2] <= max}
\* the threads of an output raster
Pixels(out) == (0..(out[1] - 1)) \X (0..(out[2] - 1))

\* fields of size gs, indexed field[y][x]
Uniform(gs, v) == [y \in 0..(gs[2] - 1) |-> [x \in 0..(gs[1] - 1) |-> v]]
Ramp(gs, k) == [y \in 0..(gs[2] - 1) |-> [x \in 0..(gs[1] - 1) |-> I(k + x + gs[1] * y)]]

\* the contents the model draws for the nine fields: the electric and magnetic
\* components and the conductivity are all zero, or vary from cell to cell
FieldKinds == {"zero", "ramp"}
PermittivityValues == {Zero, Num(6, 5), I(3)}
PermeabilityValues == {Zero, I(3)}
CellSizes == {Zero, Lit002, Num(4, 100)}

FieldSet(gs, kind, pt, pm) ==
    [ electricFieldX |-> IF kind = "ramp" THEN Ramp(gs, 1) ELSE Uniform(gs, Zero),
      electricFieldY |-> Uniform(gs, Zero),
      electricFieldZ |-> IF kind = "ramp" THEN Ramp(gs, 0) ELSE Uniform(gs, Zero),
      magneticFieldX |-> IF kind = "ramp" THEN Ramp(gs, 2) ELSE Uniform(gs, Zero),
      magneticFieldY |-> IF kind = "ramp" THEN Ramp(gs, 0) ELSE Uniform(gs, Zero),
      magneticFieldZ |-> Uniform(gs, Zero),
      permittivity   |-> Uniform(gs, pt),
      permeability   |-> Uniform(gs, pm),
      conductivity   |-> IF kind = "ramp" THEN Uniform(gs, I(-200))
                         ELSE Uniform(gs, Zero) ]

\* the arguments of a kernel, and an empty raster
Inputs(kinds, pts, pms, css) ==
    /\ gridSize \in Shapes(MaxCells)
    /\ output \in Shapes(MaxPixels)
    /\ cellSize \in css
    /\ \E kind \in kinds, pt \in pts, pm \in pms :
           fields = FieldSet(gridSize, kind, pt, pm)
    /\ raster = [p \in Pixels(output) |-> NoColor]
    /\ frameGpu = NoFrame
    /\ frameCpu = NoFrame
    /\ args0 = <<fields, gridSize, cellSize>>
    /\ call = NoCall

-----------------------------------------------------------------------------
(* One invocation of each kernel on the same arguments: Init draws the     *)
(* arguments, this.output and this.thread; an action runs a kernel's body. *)

Init ==
    /\ Inputs(FieldKinds, PermittivityValues, PermeabilityValues, CellSizes)
    /\ thread \in Pixels(output)
    /\ kernel = "none"

DrawGpu ==
    /\ frameGpu = NoFrame
    /\ drawGpu(fields, gridSize, cellSize, thread, output, frameGpu')
    /\ UNCHANGED <<fields, gridSize, cellSize, output, kernel, thread, frameCpu,
                   raster, args0, call>>

DrawCpu ==
    /\ frameCpu = NoFrame
    /\ drawCpu(fields, gridSize, cellSize, thread, output, frameCpu')
    /\ UNCHANGED <<fields, gridSize, cellSize, output, kernel, thread, frameGpu,
                   raster, args0, call>>

Next == DrawGpu \/ DrawCpu

Spec == Init /\ [][Next]_vars

-----------------------------------------------------------------------------
(* One frame: the dispatcher runs the frame's kernel once for every thread *)
(* of the output, in any order; this.color writes the thread's pixel.      *)

FrameInit ==
    /\ Inputs({"ramp"}, {Num(6, 5)}, {I(3)}, {Num(4, 100)})
    /\ thread = NoThread
    /\ kernel \in {"gpu", "cpu"}

\* an invocation that also writes one of its arguments: it clears the
\* conductivity it has read
RenderGpuAt_ClearsConductivity(p) ==
    /\ kernel = "gpu"
    /\ raster[p] = NoColor
    /\ drawGpu(fields, gridSize, cellSize, p, output, frameGpu')
    /\ raster' = [raster EXCEPT ![p] = frameGpu'.color]
    /\ thread' = p
    /\ fields' = [fields EXCEPT !.conductivity = Uniform(gridSize, Zero)]
    /\ UNCHANGED <<gridSize, cellSize, output, kernel, frameCpu, args0, call>>

RenderGpuAt(p) ==
    /\ kernel = "gpu"
    /\ raster[p] = NoColor
    /\ drawGpu(fields, gridSize, cellSize, p, output, frameGpu')
    /\ raster' = [raster EXCEPT ![p] = frameGpu'.color]
    /\ thread' = p
    /\ UNCHANGED <<fields, gridSize, cellSize, output, kernel, frameCpu, args0, call>>

RenderCpuAt(p) ==
    /\ kernel = "cpu"
    /\ raster[p] = NoColor
    /\ drawCpu(fields, gridSize, cellSize, p, output, frameCpu')
    /\ raster' = [raster EXCEPT ![p] = frameCpu'.color]
    /\ thread' = p
    /\ UNCHANGED <<fields, gridSize, cellSize, output, kernel, frameGpu, args0, call>>

RenderGpu == \E p \in Pixels(output) : RenderGpuAt(p)
RenderCpu == \E p \in Pixels(output) : RenderCpuAt(p)

FrameNext == RenderGpu \/ RenderCpu

FrameSpec == FrameInit /\ [][FrameNext]_vars

-----------------------------------------------------------------------------
(* Direct calls of the two exported helpers. *)

\* coordinates in halves, from ArgSpan halves below 0 to ArgSpan above s
Coords(s) == {Num(k, 2) : k \in (-ArgSpan)..(2 * s + ArgSpan)}
\* arguments of nativeSmoothStep in eighths, from -ArgSpan to 1 + ArgSpan
SmoothArgs == {Num(k, 8) : k \in (-8 * ArgSpan)..(8 + 8 * ArgSpan)}

CallInit ==
    /\ fields = <<>> /\ gridSize = <<>> /\ cellSize = Zero /\ output = <<>>
    /\ kernel = "none" /\ thread = NoThread /\ raster = <<>>
    /\ frameGpu = NoFrame /\ frameCpu = NoFrame
    /\ args0 = <<>>
    /\ \/ \E gs \in Shapes(MaxCells) : \E x \in Coords(gs[1]), y \in Coords(gs[2]) :
              call = [fn |-> "getAt", args |-> <<Ramp(gs, 1), gs[1], gs[2], x, y>>,
                      ret |-> NoRet, reads |-> {}]
       \/ \E t \in SmoothArgs :
              call = [fn |-> "nativeSmoothStep", args |-> <<t>>,
                      ret |-> NoRet, reads |-> {}]

CallGetAt ==
    /\ call.fn = "getAt" /\ call.ret = NoRet
    /\ LET a == call.args
       IN  call' = [call EXCEPT !.ret = getAt(a[1], a[2], a[3], a[4], a[5]),
                                !.reads = getAtReads(a[2], a[3], a[4], a[5])]
    /\ UNCHANGED <<fields, gridSize, cellSize, output, kernel, thread, frameGpu,
                   frameCpu, raster, args0>>

CallSmoothStep ==
    /\ call.fn = "nativeSmoothStep" /\ call.ret = NoRet
    /\ call' = [call EXCEPT !.ret = nativeSmoothStep(call.args[1])]
    /\ UNCHANGED <<fields, gridSize, cellSize, output, kernel, thread, frameGpu,
                   frameCpu, raster, args0>>

CallNext == CallGetAt \/ CallSmoothStep

CallSpec == CallInit /\ [][CallNext]_vars

-----------------------------------------------------------------------------
(* Properties. *)

\* the kernel invocations that have run
Frames == {l \in {frameGpu, frameCpu} : l # NoFrame}
\* the three arguments of this.color
Channels == 1..3
\* all nine fields are zero
AllZero == fields = FieldSet(gridSize, "zero", Zero, Zero)
\* a mapped material value in the gap between 0 and the threshold 0.1
InGap(v) == Gt(v, Zero) /\ Lt(v, Lit01)

(* C1: getAt returns 0 when x or y is out of range and the stored value   *)
(* otherwise, and reads the field at no index outside 0..shapeX-1 by      *)
(* 0..shapeY-1.  A fractional coordinate is truncated by the array index.  *)
C1_GetAt ==
    (call.fn = "getAt" /\ call.ret # NoRet) =>
        LET field == call.args[1]
            shapeX == call.args[2]
            shapeY == call.args[3]
            x == call.args[4]
            y == call.args[5]
            outside == \/ x[1] < 0 \/ x[1] >= shapeX * x[2]
                       \/ y[1] < 0 \/ y[1] >= shapeY * y[2]
        IN  /\ outside => call.ret = Zero /\ call.reads = {}
            /\ ~outside => /\ call.ret = field[y[1] \div y[2]][x[1] \div x[2]]
                           /\ call.reads = {<<y[1] \div y[2], x[1] \div x[2]>>}
            /\ call.reads \subseteq (0..(shapeY - 1)) \X (0..(shapeX - 1))

\* getAt has read the last cell of a grid with more than one column
C1_Reached ==
    /\ call.fn = "getAt" /\ call.ret # NoRet
    /\ call.args[2] > 1
    /\ call.args[4] = I(call.args[2] - 1) /\ call.args[5] = I(call.args[3] - 1)
    /\ call.reads = {<<call.args[3] - 1, call.args[2] - 1>>}
    /\ call.ret # Zero

(* C9: nativeSmoothStep(t) is 0 for t <= 0, 1 for t >= 1 and 0.5 at 0.5,  *)
(* lies in [0, 1], and does not decrease as t grows over [0, 1].           *)
C9_SmoothStep ==
    (call.fn = "nativeSmoothStep" /\ call.ret # NoRet) =>
        LET t == call.args[1]
            r == call.ret
        IN  /\ t[1] <= 0 => r = Zero
            /\ t[1] >= t[2] => r = One
            /\ t = Half => r = Half
            /\ Le(Zero, r) /\ Le(r, One)
            /\ \A u \in SmoothArgs :
                   (Le(Zero, u) /\ Le(u, t) /\ Le(t, One)) =>
                       Le(nativeSmoothStep(u), r)

\* nativeSmoothStep has been applied inside (0, 1), off the midpoint
C9_Reached ==
    /\ call.fn = "nativeSmoothStep" /\ call.ret # NoRet
    /\ call.args[1] = Num(3, 4)
    /\ Gt(call.ret, Half) /\ Lt(call.ret, One)

(* C2, as the specification states it: for cellSize > 0 every channel a   *)
(* kernel passes to this.color lies in [0, 1].                             *)
C2_UnitInterval ==
    \A l \in Frames :
        Gt(cellSize, Zero) =>
            \A i \in Channels : Ge(l.color[i], Zero) /\ Le(l.color[i], One)

(* C2, amended: for cellSize > 0 every channel is at most 1; it is at      *)
(* least 0 when the sampled conductivity is not negative and neither       *)
(* mapped material value lies strictly between 0 and 0.1.                  *)
C2_UpperClamp ==
    \A l \in Frames :
        Gt(cellSize, Zero) =>
            \A i \in Channels :
                /\ Le(l.color[i], One)
                /\ ( /\ Ge(l.background, Zero)
                     /\ ~InGap(l.permittivityValue)
                     /\ ~InGap(l.permeabilityValue) ) => Ge(l.color[i], Zero)

\* a kernel has clamped the green channel of a pixel whose magnetic energy
\* exceeds 1, where no term of a channel is negative
C2_Reached ==
    \E l \in Frames :
        /\ Gt(cellSize, Zero)
        /\ Gt(l.mEnergy, One) /\ l.color[2] = One
        /\ Ge(l.background, Zero)
        /\ ~InGap(l.permittivityValue) /\ ~InGap(l.permeabilityValue)

(* C3, as the specification states it: with all nine fields zero every     *)
(* pixel is black.                                                         *)
C3_Black ==
    \A l \in Frames :
        (AllZero /\ Gt(cellSize, Zero)) => l.color = <<Zero, Zero, Zero>>

(* C3, amended: with all nine fields zero and cellSize > 0, green is 0;    *)
(* red and blue lie in [0, 0.2]; red (blue) is 0 where the permittivity    *)
(* (permeability) circle distance is 0, and 0.8 times the magnitude of the *)
(* mapped value of 0, about 0.196, where that distance is at least 1.      *)
C3_DimPattern ==
    \A l \in Frames :
        (AllZero /\ Gt(cellSize, Zero)) =>
            /\ l.color[2] = Zero
            /\ Ge(l.color[1], Zero) /\ Le(l.color[1], Num(1, 5))
            /\ Ge(l.color[3], Zero) /\ Le(l.color[3], Num(1, 5))
            /\ l.circleDistPermittivity = Zero => l.color[1] = Zero
            /\ l.circleDistPermeability = Zero => l.color[3] = Zero
            /\ Ge(l.circleDistPermittivity, One) =>
                   l.color[1] = Mul(Lit08, Neg(materialValue(Zero)))
            /\ Ge(l.circleDistPermeability, One) =>
                   l.color[3] = Mul(Lit08, Neg(materialValue(Zero)))

\* both kernels have drawn a pixel of an all-zero scene whose red channel is
\* above 0 and whose blue channel is 0, at the centre of a permeability circle
C3_Reached ==
    /\ AllZero /\ Gt(cellSize, Zero)
    /\ frameGpu # NoFrame /\ frameCpu # NoFrame
    /\ Gt(frameGpu.color[1], Zero) /\ Gt(frameCpu.color[1], Zero)
    /\ frameGpu.circleDistPermeability = Zero /\ frameGpu.color[3] = Zero

(* C4: with cellSize = 0 no kernel invocation gets as far as this.color,   *)
(* and no channel passed to this.color is NaN or infinite.                 *)
C4_PreconditionError ==
    \A l \in Frames :
        /\ cellSize # Zero
        /\ \A i \in Channels : IsFinite(l.color[i])

(* C5: in drawCpu, with the output size equal to the grid size, the        *)
(* rounded column is the pixel's column and every sample is the field's    *)
(* value at a cell inside the grid.                                        *)
C5_DirectIndexing ==
    (frameCpu # NoFrame /\ output = gridSize /\ Gt(cellSize, Zero)) =>
        LET ix == ArrayIndex(frameCpu.x)
            iy == ArrayIndex(frameCpu.y)
        IN  /\ frameCpu.x = I(thread[1])
            /\ ix \in 0..(gridSize[1] - 1)
            /\ iy \in 0..(gridSize[2] - 1)
            /\ frameCpu.eX = fields.electricFieldX[iy][ix]
            /\ frameCpu.eY = fields.electricFieldY[iy][ix]
            /\ frameCpu.eZ = fields.electricFieldZ[iy][ix]
            /\ frameCpu.mX = fields.magneticFieldX[iy][ix]
            /\ frameCpu.mY = fields.magneticFieldY[iy][ix]
            /\ frameCpu.mZ = fields.magneticFieldZ[iy][ix]
            /\ frameCpu.background = Div(fields.conductivity[iy][ix], Lit2000)

(* C6: with the output size equal to the grid size, drawGpu and drawCpu    *)
(* pass the same triple to this.color for the same pixel and fields.       *)
C6_SameColor ==
    (frameGpu # NoFrame /\ frameCpu # NoFrame /\ output = gridSize
        /\ Gt(cellSize, Zero)) =>
        frameGpu.color = frameCpu.color

(* C7: an invocation changes none of fields, gridSize and cellSize, and    *)
(* the triple it writes to its pixel is the kernel's value for that pixel, *)
(* the output size and the frame's original arguments; it writes no other  *)
(* pixel.  So the raster of a frame does not depend on the order of the    *)
(* invocations.                                                            *)
C7_PureOrderIndependent ==
    [][ /\ <<fields', gridSize', cellSize'>> = args0
        /\ \/ /\ kernel = "gpu"
              /\ drawGpu(args0[1], args0[2], args0[3], thread', output, frameGpu')
              /\ raster' = [raster EXCEPT ![thread'] = frameGpu'.color]
           \/ /\ kernel = "cpu"
              /\ drawCpu(args0[1], args0[2], args0[3], thread', output, frameCpu')
              /\ raster' = [raster EXCEPT ![thread'] = frameCpu'.color]
      ]_vars

\* a frame of more than one pixel is complete, and its first pixel was drawn
\* last
C7_Reached ==
    /\ kernel \in {"gpu", "cpu"}
    /\ Cardinality(Pixels(output)) > 1
    /\ \A p \in Pixels(output) : raster[p] # NoColor
    /\ thread = <<0, 0>>

(* C8: all fields zero except a uniform permittivity whose mapped value is *)
(* at least 0.1: for every pixel, red = min(1, 0.8 * mapped value) where   *)
(* the permittivity circle distance is 0, and red = 0 where it is at       *)
(* least 1.                                                                *)
C8_UniformPermittivity ==
    \A l \in Frames : \A pt \in PermittivityValues :
        ( /\ Gt(cellSize, Zero)
          /\ Ge(materialValue(pt), Lit01)
          /\ fields = FieldSet(gridSize, "zero", pt, Zero) ) =>
            /\ l.circleDistPermittivity = Zero =>
                   l.color[1] = MathMin(One, Mul(Lit08, materialValue(pt)))
            /\ Ge(l.circleDistPermittivity, One) => l.color[1] = Zero

(* C10: for a pixel of row 0 both kernels sample at y = gy, outside the    *)
(* grid, so the electric samples and the conductivity term are 0, the      *)
(* material values are the mapped value of 0, and for cellSize > 0 the     *)
(* electric energy is 0, whatever the fields hold; in drawCpu with the     *)
(* output height equal to gy the sampled row is gy - py, in 1..gy.         *)
C10_TopRow ==
    /\ \A l \in Frames :
           thread[2] = 0 =>
               /\ l.y = I(gridSize[2])
               /\ l.eX = Zero /\ l.eY = Zero /\ l.eZ = Zero
               /\ l.background = Zero
               /\ l.permittivityValue = materialValue(Zero)
               /\ l.permeabilityValue = materialValue(Zero)
               /\ Gt(cellSize, Zero) => l.eEnergy = Zero
    /\ (frameCpu # NoFrame /\ output[2] = gridSize[2]) =>
           /\ frameCpu.y = I(gridSize[2] - thread[2])
           /\ gridSize[2] - thread[2] \in 1..gridSize[2]

\* both kernels have drawn a pixel of row 0 over fields that are not zero
C10_Reached ==
    /\ frameGpu # NoFrame /\ frameCpu # NoFrame
    /\ thread[2] = 0
    /\ output[2] = gridSize[2] /\ gridSize[2] > 1
    /\ Gt(cellSize, Zero)
    /\ fields.electricFieldX[0][0] # Zero
    /\ fields.conductivity[0][0] # Zero
    /\ fields.permittivity[0][0] # Zero

====
